---- MODULE Spec2Model ----
(***************************************************************************)
(* Flash session orchestration of the image flasher: the flash controller  *)
(* (flashImageToDrive, downloadImageIfNeeded, getProgressButtonLabel) and  *)
(* the image selector service (selectImage, selectImageByPath,             *)
(* reselectImage).  Every call of flashImageToDrive is one session; the    *)
(* sessions share the flash state, the selection state and the drive       *)
(* scanner.  The promise callbacks of the source are the actions; callbacks*)
(* that run back to back as microtasks of one task are one action.         *)
(***************************************************************************)
EXTENDS Integers, Sequences, FiniteSets, TLC

\* Number of flashImageToDrive calls (sessions) the model follows.
NumSessions == 2

Sessions == 1..NumSessions

\* utils.PERCENTAGE_MINIMUM / utils.PERCENTAGE_MAXIMUM
PERCENTAGE_MINIMUM == 0
PERCENTAGE_MAXIMUM == 100

\* An image argument without a path (a remote source to download).
NoPath == ""

\* The staging file the download resolves with.
StagingPath == "./os.zip"

\* Local paths a caller hands to flashImageToDrive.
LocalPaths == {"rpi.img", "win10.iso", "notes.txt"}

Candidates == LocalPaths \cup {NoPath}

\* File extension of a path (path.extname without the dot).
Extension(p) ==
  CASE p = "rpi.img" -> "img"
    [] p = "win10.iso" -> "iso"
    [] p = "notes.txt" -> "txt"
    [] p = StagingPath -> "zip"
    [] OTHER -> ""

\* this.mainSupportedExtensions
mainSupportedExtensions == {"img", "iso", "zip"}

\* supportedFormats.isSupportedImage(path)
isSupportedImage(p) == Extension(p) \in mainSupportedExtensions

\* supportedFormats.looksLikeWindowsImage(path): a name heuristic.
looksLikeWindowsImage(p) == p \in {"win10.iso"}

\* Progress ticks, in percent, and speeds (0 is "no speed yet").
Percents == {0, 45, 100}
Speeds == {0, 1}

\* The progress the writer reports while it runs.
WriterPercents == {45}
WriterSpeeds == {1}

\* Error codes the writer rejects with; EOTHER is any unrecognized code.
ErrorCodes == {"EVALIDATION", "EUNPLUGGED", "EIO", "ENOSPC", "EOTHER"}

\* JavaScript values of the two feature flags of a descriptor, as the metadata
\* of each image file carries them: absent, a payload, or already a boolean.
MetadataFlags(p) ==
  CASE p = "rpi.img" -> [logo |-> "<svg/>", bmap |-> "undefined"]
    [] p = "win10.iso" -> [logo |-> "undefined", bmap |-> "<bmap/>"]
    [] p = StagingPath -> [logo |-> "true", bmap |-> "false"]
    [] OTHER -> [logo |-> "undefined", bmap |-> "undefined"]

\* Boolean(value), on those values.
Boolean(v) == IF v \in {"undefined", "false", ""} THEN "false" ELSE "true"

\* The flag is a strict boolean.
IsStrictBoolean(v) == v \in {"true", "false"}

NoImage == [path |-> NoPath, hasMBR |-> FALSE, logo |-> "undefined",
            bmap |-> "undefined"]
NoMessage == "none"
NotSettled == "none"
DefaultProgress == [type |-> "none", percentage |-> 0, speed |-> 0]

FailureTitle == "Oops! Looks like the flash failed."

\* Where a handler of the writer's promise throws: the success handler at
\* the state transition ($state.go), the failure handler at the notification
\* sink (notification.send).
ThenThrows == {"none", "go"}
CatchThrows == {"none", "send"}
NoThrow == [then |-> "none", catch |-> "none"]

VARIABLES
  pc,            \* per session: where its promise chain stands
  image,         \* per session: the image selectImage works on
  retPath,       \* per session: the path downloadImageIfNeeded resolves with
  modal,         \* per session: the warning WarningModalService displays
  selectPromise, \* per session: the promise selectImage returned
  byPathPromise, \* per session: the promise selectImageByPath returned
  flashCalls,    \* per session: ImageWriterService.flash() invocations
  isFlashing,    \* flashState.isFlashing()
  isDownloading, \* flashState.isDownloading()
  lastCancelled, \* flashState.wasLastFlashCancelled()
  progress,      \* flashState.getFlashState()
  selection,     \* the image held by selectionState
  stops,         \* per session: driveScanner.stop() calls
  starts,        \* per session: driveScanner.start() calls
  settled,       \* how the writer's promise settled, if the last handler ran on it
  notifs,        \* notification.send calls (titles) of the handlers that ran last
  shown,         \* FlashErrorModalService.show calls (messages) of those handlers
  reports,       \* exceptionReporter.report calls of those handlers
  threw,         \* where those handlers threw
  unmountOnSuccess, \* settings.get('unmountOnSuccess')
  label          \* the label the progress button was rendered with

vars == <<pc, image, retPath, modal, selectPromise, byPathPromise, flashCalls,
          isFlashing, isDownloading, lastCancelled, progress, selection,
          stops, starts, settled, notifs, shown, reports, threw,
          unmountOnSuccess, label>>

scanner == <<stops, starts>>
promises == <<selectPromise, byPathPromise>>
flashFlags == <<isFlashing, isDownloading, lastCancelled, progress>>
button == <<unmountOnSuccess, label>>

\* The button has not been rendered.
NoLabel == ""

\* The kinds of progress records: none published, the download's, the
\* writer's two.
ProgressTypes == {"none", "download", "write", "check"}

Init ==
  /\ pc = [s \in Sessions |-> "idle"]
  /\ image = [s \in Sessions |-> NoImage]
  /\ retPath = [s \in Sessions |-> NoPath]
  /\ modal = [s \in Sessions |-> NoMessage]
  /\ selectPromise = [s \in Sessions |-> "none"]
  /\ byPathPromise = [s \in Sessions |-> "none"]
  /\ flashCalls = [s \in Sessions |-> 0]
  /\ isFlashing = FALSE
  /\ isDownloading = FALSE
  /\ lastCancelled = FALSE
  /\ progress = DefaultProgress
  /\ selection = NoImage
  /\ stops = [s \in Sessions |-> 0]
  /\ starts = [s \in Sessions |-> 0]
  /\ settled = NotSettled
  /\ notifs = <<>>
  /\ shown = <<>>
  /\ reports = 0
  /\ threw = NoThrow
  /\ unmountOnSuccess = TRUE
  /\ label = NoLabel

\* A handler that is no handler of the writer's promise and sends nothing to
\* the notification sink, the error modal or the exception reporter.
quiet ==
  /\ settled' = NotSettled
  /\ notifs' = <<>>
  /\ shown' = <<>>
  /\ reports' = 0
  /\ threw' = NoThrow
  /\ UNCHANGED button

\* The session's promise chain is over (or can never continue): the locals of
\* its closures are dead.
dropLocals(s) ==
  /\ image' = [image EXCEPT ![s] = NoImage]
  /\ retPath' = [retPath EXCEPT ![s] = NoPath]

\* Sessions are numbered in call order.
NextCall(s) == pc[s] = "idle" /\ \A r \in Sessions : r < s => pc[r] # "idle"

\* flashState.setFlashingFlag(): a new operation starts, the last operation's
\* results are forgotten.
setFlashingFlag ==
  /\ isFlashing' = TRUE
  /\ lastCancelled' = FALSE

\* flashState.unsetFlashingFlag(data): the operation is over, the progress
\* record goes back to its default; data.download ends the download phase.
unsetFlashingFlag(download) ==
  /\ isFlashing' = FALSE
  /\ isDownloading' = IF download THEN FALSE ELSE isDownloading
  /\ progress' = DefaultProgress

\* selectImageByPath(imagePath) is called: it returns a pending promise and
\* asks the resolver for the metadata.
selectImageByPath(s) ==
  /\ byPathPromise' = [byPathPromise EXCEPT ![s] = "pending"]
  /\ pc' = [pc EXCEPT ![s] = "metadata"]

\* downloadImageIfNeeded(imagePath) up to the return of the promise: a local
\* image resolves with its path at once (the then-callback calls
\* selectImageByPath, which asks for the metadata); a remote one sets the
\* flashing flag, enters the download phase and starts the transfer.
downloadImageIfNeeded(s, p) ==
  IF p # NoPath
    THEN /\ retPath' = [retPath EXCEPT ![s] = p]
         /\ selectImageByPath(s)
         /\ UNCHANGED flashFlags
    ELSE /\ setFlashingFlag
         /\ isDownloading' = TRUE
         /\ pc' = [pc EXCEPT ![s] = "downloading"]
         /\ UNCHANGED <<retPath, progress, byPathPromise>>

\* flashImageToDrive with driveScanner.stop() called before the entry guard.
flashImageToDriveStopFirst(s, p) ==
  /\ NextCall(s)
  /\ stops' = [stops EXCEPT ![s] = @ + 1]
  /\ IF isFlashing
       THEN /\ pc' = [pc EXCEPT ![s] = "refused"]
            /\ UNCHANGED <<retPath, flashFlags, byPathPromise>>
       ELSE downloadImageIfNeeded(s, p)
  /\ quiet
  /\ UNCHANGED <<image, modal, selectPromise, flashCalls, selection, starts>>

\* flashImageToDrive(image, drive): the entry guard, driveScanner.stop(), and
\* the synchronous part of downloadImageIfNeeded.
flashImageToDrive(s, p) ==
  /\ NextCall(s)
  /\ IF isFlashing
       THEN /\ pc' = [pc EXCEPT ![s] = "refused"]
            /\ UNCHANGED <<retPath, flashFlags, stops, byPathPromise>>
       ELSE /\ stops' = [stops EXCEPT ![s] = @ + 1]
            /\ downloadImageIfNeeded(s, p)
  /\ quiet
  /\ UNCHANGED <<image, modal, selectPromise, flashCalls, selection, starts>>

\* The 'progress' handler of the download: the transfer's state is normalized
\* and published with type 'download'.
downloadProgress(s, percent, speed) ==
  /\ pc[s] = "downloading"
  /\ progress' = [type |-> "download", percentage |-> percent,
                  speed |-> IF speed # 0 THEN speed ELSE 0]
  /\ quiet
  /\ UNCHANGED <<pc, image, retPath, modal, promises, flashCalls, isFlashing,
                 isDownloading, lastCancelled, selection, scanner>>

\* The 'end' handler of the download: the flag is unset, the promise resolves
\* with the staging file and the then-callback calls selectImageByPath.
downloadEnd(s) ==
  /\ pc[s] = "downloading"
  /\ unsetFlashingFlag(TRUE)
  /\ retPath' = [retPath EXCEPT ![s] = StagingPath]
  /\ selectImageByPath(s)
  /\ quiet
  /\ UNCHANGED <<image, modal, selectPromise, flashCalls, lastCancelled,
                 selection, scanner>>

\* The transfer emits 'error': no handler is registered for it, the promise
\* is neither resolved nor rejected.
downloadError(s) ==
  /\ pc[s] = "downloading"
  /\ pc' = [pc EXCEPT ![s] = "downloadError"]
  /\ quiet
  /\ UNCHANGED <<image, retPath, modal, promises, flashCalls, flashFlags,
                 selection, scanner>>

\* selectImageByPath: getImageMetadata resolves, selectImage is scheduled
\* with $timeout.
metadataResolved(s, mbr) ==
  /\ pc[s] = "metadata"
  /\ image' = [image EXCEPT ![s] =
                 [path |-> retPath[s], hasMBR |-> mbr,
                  logo |-> MetadataFlags(retPath[s]).logo,
                  bmap |-> MetadataFlags(retPath[s]).bmap]]
  /\ retPath' = [retPath EXCEPT ![s] = NoPath]
  /\ pc' = [pc EXCEPT ![s] = "timeout"]
  /\ quiet
  /\ UNCHANGED <<modal, promises, flashCalls, flashFlags, selection, scanner>>

\* metadataRejected with the selection removed on the way out.
metadataRejectedClearing(s) ==
  /\ pc[s] = "metadata"
  /\ pc' = [pc EXCEPT ![s] = "openError"]
  /\ byPathPromise' = [byPathPromise EXCEPT ![s] = "rejected"]
  /\ selection' = NoImage
  /\ dropLocals(s)
  /\ quiet
  /\ UNCHANGED <<modal, selectPromise, flashCalls, flashFlags, scanner>>

\* selectImageByPath: getImageMetadata rejects, the error is shown and the
\* promise rejects; flashImageToDrive has no handler for the rejection.
metadataRejected(s) ==
  /\ pc[s] = "metadata"
  /\ pc' = [pc EXCEPT ![s] = "openError"]
  /\ byPathPromise' = [byPathPromise EXCEPT ![s] = "rejected"]
  /\ dropLocals(s)
  /\ quiet
  /\ UNCHANGED <<modal, selectPromise, flashCalls, flashFlags, selection, scanner>>

\* RiskMessage with the two checks in the other order.
RiskMessageMBRFirst(img) ==
  IF ~img.hasMBR THEN "missingPartitionTable"
  ELSE IF looksLikeWindowsImage(img.path) THEN "looksLikeWindowsImage"
  ELSE NoMessage

\* The warning selectImage computes: at most one message, the Windows
\* heuristic first.
RiskMessage(img) ==
  IF looksLikeWindowsImage(img.path) THEN "looksLikeWindowsImage"
  ELSE IF ~img.hasMBR THEN "missingPartitionTable"
  ELSE NoMessage

\* ImageWriterService.flash(image.path, drive) is invoked: it throws
\* synchronously, or it sets the flashing flag and starts writing.
writerFlash(s, throws) ==
  /\ flashCalls' = [flashCalls EXCEPT ![s] = @ + 1]
  /\ IF throws
       THEN /\ pc' = [pc EXCEPT ![s] = "writerThrew"]
            /\ UNCHANGED flashFlags
       ELSE /\ setFlashingFlag
            /\ pc' = [pc EXCEPT ![s] = "writing"]
            /\ UNCHANGED <<isDownloading, progress>>

\* image.logo = Boolean(image.logo); image.bmap = Boolean(image.bmap)
normalizeFlags(img) ==
  [img EXCEPT !.logo = Boolean(img.logo), !.bmap = Boolean(img.bmap)]

\* acceptImage with the flags normalized before the commit.
acceptImageNormalizedFirst(s, throws) ==
  /\ selection' = normalizeFlags(image[s])
  /\ selectPromise' = [selectPromise EXCEPT ![s] = "resolved"]
  /\ byPathPromise' = [byPathPromise EXCEPT ![s] = "resolved"]
  /\ image' = [image EXCEPT ![s] = IF throws THEN NoImage
                                   ELSE normalizeFlags(image[s])]
  /\ UNCHANGED retPath
  /\ writerFlash(s, throws)

\* rejectInvalidImage with the image committed before it is rejected.
rejectInvalidImageCommitted(s) ==
  /\ pc' = [pc EXCEPT ![s] = "invalid"]
  /\ selectPromise' = [selectPromise EXCEPT ![s] = "rejected"]
  /\ byPathPromise' = [byPathPromise EXCEPT ![s] = "rejected"]
  /\ selection' = image[s]
  /\ dropLocals(s)
  /\ UNCHANGED <<modal, flashCalls, flashFlags>>

\* rejectInvalidImage with the rejection lost on the way to the caller: the
\* then-callback of flashImageToDrive runs and invokes the writer.
rejectInvalidImageFlashes(s) ==
  /\ selectPromise' = [selectPromise EXCEPT ![s] = "rejected"]
  /\ byPathPromise' = [byPathPromise EXCEPT ![s] = "rejected"]
  /\ flashCalls' = [flashCalls EXCEPT ![s] = @ + 1]
  /\ setFlashingFlag
  /\ pc' = [pc EXCEPT ![s] = "writing"]
  /\ UNCHANGED <<image, retPath, modal, isDownloading, progress, selection>>

\* selectImage rejects an unsupported image: error dialog, analytics event,
\* reject(image); selectImageByPath rejects with it and flashImageToDrive has
\* no handler for the rejection.
rejectInvalidImage(s) ==
  /\ pc' = [pc EXCEPT ![s] = "invalid"]
  /\ selectPromise' = [selectPromise EXCEPT ![s] = "rejected"]
  /\ byPathPromise' = [byPathPromise EXCEPT ![s] = "rejected"]
  /\ dropLocals(s)
  /\ UNCHANGED <<modal, flashCalls, flashFlags, selection>>

\* selectImage displays the warning prompt; its promise stays pending.
displayWarning(s) ==
  /\ modal' = [modal EXCEPT ![s] = RiskMessage(image[s])]
  /\ selectPromise' = [selectPromise EXCEPT ![s] = "pending"]
  /\ pc' = [pc EXCEPT ![s] = "prompt"]
  /\ UNCHANGED <<image, retPath, byPathPromise, flashCalls, flashFlags, selection>>

\* selectImage hands the image to selectionState.setImage, which keeps it as
\* handed over, then normalizes the two flags and resolves with the image;
\* selectImageByPath resolves with it; the then-callback of flashImageToDrive
\* takes it as its image and invokes the writer (a writer that throws ends
\* the chain).
acceptImage(s, throws) ==
  /\ selection' = image[s]
  /\ selectPromise' = [selectPromise EXCEPT ![s] = "resolved"]
  /\ byPathPromise' = [byPathPromise EXCEPT ![s] = "resolved"]
  /\ image' = [image EXCEPT ![s] = IF throws THEN NoImage
                                   ELSE normalizeFlags(image[s])]
  /\ UNCHANGED retPath
  /\ writerFlash(s, throws)

\* selectImage(image), run from the $timeout callback.
selectImage(s, throws) ==
  /\ pc[s] = "timeout"
  /\ IF ~isSupportedImage(image[s].path)
       THEN rejectInvalidImage(s)
       ELSE IF RiskMessage(image[s]) # NoMessage
         THEN displayWarning(s)
         ELSE acceptImage(s, throws) /\ UNCHANGED modal
  /\ quiet
  /\ UNCHANGED scanner

\* The warning prompt resolves false ("Continue"): the image is committed.
promptContinue(s, throws) ==
  /\ pc[s] = "prompt"
  /\ modal' = [modal EXCEPT ![s] = NoMessage]
  /\ acceptImage(s, throws)
  /\ quiet
  /\ UNCHANGED scanner

\* reselectImage(): the selection is removed; nothing is returned.
reselectImage ==
  selection' = NoImage

\* The warning prompt resolves true ("Change"): reselectImage() is called;
\* neither resolve nor reject is called, on this path or later.
promptChange(s) ==
  /\ pc[s] = "prompt"
  /\ modal' = [modal EXCEPT ![s] = NoMessage]
  /\ reselectImage
  /\ pc' = [pc EXCEPT ![s] = "reselected"]
  /\ dropLocals(s)
  /\ quiet
  /\ UNCHANGED <<promises, flashCalls, flashFlags, scanner>>

\* The writer publishes progress, of type 'write' or 'check'.
writerProgress(s, type, percent, speed) ==
  /\ pc[s] = "writing"
  /\ progress' = [type |-> type, percentage |-> percent, speed |-> speed]
  /\ quiet
  /\ UNCHANGED <<pc, image, retPath, modal, promises, flashCalls, isFlashing,
                 isDownloading, lastCancelled, selection, scanner>>

\* The user cancels the flash in progress.
cancelFlash ==
  /\ \E s \in Sessions : pc[s] = "writing"
  /\ ~lastCancelled
  /\ lastCancelled' = TRUE
  /\ quiet
  /\ UNCHANGED <<pc, image, retPath, modal, promises, flashCalls, isFlashing,
                 isDownloading, progress, selection, scanner>>

\* ErrorMessage without the ENOSPC branch.
ErrorMessageNoSpaceMissing(code) ==
  CASE code = "EVALIDATION" -> "validation"
    [] code = "EUNPLUGGED" -> "driveUnplugged"
    [] code = "EIO" -> "inputOutput"
    [] OTHER -> "genericFlashError"

\* The message the catch-handler shows for an error code.
ErrorMessage(code) ==
  CASE code = "EVALIDATION" -> "validation"
    [] code = "EUNPLUGGED" -> "driveUnplugged"
    [] code = "EIO" -> "inputOutput"
    [] code = "ENOSPC" -> "notEnoughSpaceInDrive"
    [] OTHER -> "genericFlashError"

\* Whether the catch-handler reports the error to the exception reporter.
IsReported(code) ==
  code \notin {"EVALIDATION", "EUNPLUGGED", "EIO", "ENOSPC"}

\* The catch-handler of the writer's promise chain, as the calls it makes:
\* notification.send of the failure title, FlashErrorModalService.show of the
\* message for the code, exceptionReporter.report for an unrecognized code.
\* A call that throws ends the handler.
catchHandler(code, catchThrows) ==
  [notifs |-> <<FailureTitle>>,
   shown |-> IF catchThrows = "send" THEN <<>> ELSE <<ErrorMessage(code)>>,
   reports |-> IF catchThrows # "send" /\ IsReported(code) THEN 1 ELSE 0]

\* SuccessNotification without the look at the cancellation flag.
SuccessNotificationAlways(cancelled) ==
  <<"Success!">>

\* The then-handler of the writer's promise: the notification it sends.
SuccessNotification(cancelled) ==
  IF ~cancelled THEN <<"Success!">> ELSE <<>>

\* finallyHandler with the restart placed at the end of the handlers instead
\* of in a finally-handler.
finallyHandlerUnlessThrown(s, thrown) ==
  starts' = [starts EXCEPT ![s] = IF thrown THEN @ ELSE @ + 1]

\* The finally-handler of the writer's promise chain: driveScanner.start(),
\* whether the handlers before it threw or not.
finallyHandler(s, thrown) ==
  starts' = [starts EXCEPT ![s] = @ + 1]

\* The writer resolves: success notification unless cancelled; if the
\* then-handler throws, the catch-handler runs on what it threw (an error
\* without a recognized code); then the finally-handler restarts the drive
\* scanner.
flashSucceeded(s, thenThrows, catchThrows) ==
  /\ pc[s] = "writing"
  /\ lastCancelled => thenThrows = "none"
  /\ thenThrows = "none" => catchThrows = "none"
  /\ unsetFlashingFlag(FALSE)
  /\ settled' = "resolved"
  /\ IF thenThrows = "none"
       THEN /\ notifs' = SuccessNotification(lastCancelled)
            /\ shown' = <<>>
            /\ reports' = 0
       ELSE /\ notifs' = SuccessNotification(lastCancelled)
                            \o catchHandler("EOTHER", catchThrows).notifs
            /\ shown' = catchHandler("EOTHER", catchThrows).shown
            /\ reports' = catchHandler("EOTHER", catchThrows).reports
  /\ threw' = [then |-> thenThrows, catch |-> catchThrows]
  /\ finallyHandler(s, thenThrows # "none" \/ catchThrows # "none")
  /\ pc' = [pc EXCEPT ![s] = "done"]
  /\ dropLocals(s)
  /\ UNCHANGED <<modal, promises, flashCalls, lastCancelled, selection, stops,
                 button>>

\* The writer rejects: the catch-handler runs on the error, then the
\* finally-handler restarts the drive scanner.
flashFailed(s, code, catchThrows) ==
  /\ pc[s] = "writing"
  /\ unsetFlashingFlag(FALSE)
  /\ settled' = code
  /\ notifs' = catchHandler(code, catchThrows).notifs
  /\ shown' = catchHandler(code, catchThrows).shown
  /\ reports' = catchHandler(code, catchThrows).reports
  /\ threw' = [then |-> "none", catch |-> catchThrows]
  /\ finallyHandler(s, catchThrows # "none")
  /\ pc' = [pc EXCEPT ![s] = "done"]
  /\ dropLocals(s)
  /\ UNCHANGED <<modal, promises, flashCalls, lastCancelled, selection, stops,
                 button>>

\* getProgressButtonLabel with the validating rule before the rule for the
\* maximum percentage.
getProgressButtonLabelValidatingFirst(unmount) ==
  LET isChecking == progress.type = "check"
      isDownloadType == progress.type = "download"
  IN IF ~isDownloading THEN "Flash!"
     ELSE IF ~isFlashing THEN "Flash!"
     ELSE IF progress.percentage = PERCENTAGE_MINIMUM /\ progress.speed = 0
       THEN "Starting..."
     ELSE IF isChecking THEN ToString(progress.percentage) \o "% Validating..."
     ELSE IF progress.percentage = PERCENTAGE_MAXIMUM
       THEN IF isChecking /\ unmount THEN "Unmounting..."
            ELSE "Finishing..."
     ELSE IF isDownloadType THEN ToString(progress.percentage) \o "% Downloading..."
     ELSE ToString(progress.percentage) \o "%"

\* getProgressButtonLabel(), for a value of the unmountOnSuccess setting.
getProgressButtonLabel(unmount) ==
  LET isChecking == progress.type = "check"
      isDownloadType == progress.type = "download"
  IN IF ~isDownloading THEN "Flash!"
     ELSE IF ~isFlashing THEN "Flash!"
     ELSE IF progress.percentage = PERCENTAGE_MINIMUM /\ progress.speed = 0
       THEN "Starting..."
     ELSE IF progress.percentage = PERCENTAGE_MAXIMUM
       THEN IF isChecking /\ unmount THEN "Unmounting..."
            ELSE "Finishing..."
     ELSE IF isChecking THEN ToString(progress.percentage) \o "% Validating..."
     ELSE IF isDownloadType THEN ToString(progress.percentage) \o "% Downloading..."
     ELSE ToString(progress.percentage) \o "%"

\* The progress button is rendered: its label is computed from the flash
\* state and the setting.
renderLabel ==
  /\ label' = getProgressButtonLabel(unmountOnSuccess)
  /\ UNCHANGED <<pc, image, retPath, modal, promises, flashCalls, flashFlags,
                 selection, scanner, settled, notifs, shown, reports, threw,
                 unmountOnSuccess>>

Next ==
  \/ \E s \in Sessions, p \in Candidates : flashImageToDrive(s, p)
  \/ \E s \in Sessions, percent \in Percents, speed \in Speeds :
       downloadProgress(s, percent, speed)
  \/ \E s \in Sessions : downloadEnd(s)
  \/ \E s \in Sessions : downloadError(s)
  \/ \E s \in Sessions, mbr \in BOOLEAN : metadataResolved(s, mbr)
  \/ \E s \in Sessions : metadataRejected(s)
  \/ \E s \in Sessions, throws \in BOOLEAN : selectImage(s, throws)
  \/ \E s \in Sessions, throws \in BOOLEAN : promptContinue(s, throws)
  \/ \E s \in Sessions : promptChange(s)
  \/ \E s \in Sessions, type \in {"write", "check"}, percent \in WriterPercents,
        speed \in WriterSpeeds : writerProgress(s, type, percent, speed)
  \/ cancelFlash
  \/ \E s \in Sessions, thenThrows \in ThenThrows, catchThrows \in CatchThrows :
       flashSucceeded(s, thenThrows, catchThrows)
  \/ \E s \in Sessions, code \in ErrorCodes, catchThrows \in CatchThrows :
       flashFailed(s, code, catchThrows)

Spec == Init /\ [][Next]_vars

\* Every collaborator eventually completes or reports failure: the transfer
\* ends or errors, the metadata resolver settles, the $timeout callback runs,
\* the user answers the prompt, the writer settles.  Calls of
\* flashImageToDrive, cancellations and progress ticks are not forced.
Fairness ==
  \A s \in Sessions :
    /\ WF_vars(downloadEnd(s) \/ downloadError(s))
    /\ WF_vars((\E mbr \in BOOLEAN : metadataResolved(s, mbr)) \/ metadataRejected(s))
    /\ WF_vars(\E throws \in BOOLEAN : selectImage(s, throws))
    /\ WF_vars((\E throws \in BOOLEAN : promptContinue(s, throws)) \/ promptChange(s))
    /\ WF_vars((\E thenThrows \in ThenThrows, catchThrows \in CatchThrows :
                   flashSucceeded(s, thenThrows, catchThrows))
               \/ (\E code \in ErrorCodes, catchThrows \in CatchThrows :
                     flashFailed(s, code, catchThrows)))

FairSpec == Spec /\ Fairness

\* getProgressButtonLabel as a function of the flash state and the setting:
\* every flash state and either value of the setting, then the rendering.
LabelInit ==
  /\ pc = [s \in Sessions |-> "idle"]
  /\ image = [s \in Sessions |-> NoImage]
  /\ retPath = [s \in Sessions |-> NoPath]
  /\ modal = [s \in Sessions |-> NoMessage]
  /\ selectPromise = [s \in Sessions |-> "none"]
  /\ byPathPromise = [s \in Sessions |-> "none"]
  /\ flashCalls = [s \in Sessions |-> 0]
  /\ isFlashing \in BOOLEAN
  /\ isDownloading \in BOOLEAN
  /\ lastCancelled = FALSE
  /\ progress \in [type : ProgressTypes, percentage : Percents, speed : Speeds]
  /\ selection = NoImage
  /\ stops = [s \in Sessions |-> 0]
  /\ starts = [s \in Sessions |-> 0]
  /\ settled = NotSettled
  /\ notifs = <<>>
  /\ shown = <<>>
  /\ reports = 0
  /\ threw = NoThrow
  /\ unmountOnSuccess \in BOOLEAN
  /\ label = NoLabel

LabelNext == renderLabel

LabelSpec == LabelInit /\ [][LabelNext]_vars

----------------------------------------------------------------------------
\* Vocabulary of the properties.

\* The session is between its entry and a terminal transition: downloading,
\* validating (metadata, $timeout, warning prompt) or flashing.
Active(s) == pc[s] \in {"downloading", "metadata", "timeout", "prompt", "writing"}

\* The session passed the entry guard.
Entered(s) == pc[s] \notin {"idle", "refused"}

\* No handler of the session will run any more.
Finished(s) == Entered(s) /\ ~Active(s)

\* The session was called with a candidate that has a local path, and is in
\* progress.
LocalSession(s) ==
  Active(s) /\ (retPath[s] \in LocalPaths \/ image[s].path \in LocalPaths)

\* An operation of the session publishes progress into the flash state: its
\* download is running, or the writer it invoked is.
Publishing(s) == pc[s] \in {"downloading", "writing"}

\* This step publishes a progress record of phase 'download'.
DownloadPublished == progress' # progress /\ progress'.type = "download"

----------------------------------------------------------------------------
\* C1: at most one flash/download session is active at any time: a second
\* session never passes the entry guard while an earlier one has not
\* reached a terminal state.
C1_AtMostOneActiveSession ==
  Cardinality({s \in Sessions : Active(s)}) <= 1

\* C2: isFlashing is true in every state between a session's entry and its
\* terminal transition, and false in every state outside a session.
C2_FlashingExactlyInSession ==
  isFlashing <=> \E s \in Sessions : Active(s)

\* C3: after any terminal outcome of the writer stage (the writer resolved or
\* rejected, cancelled or not, or its flash call threw synchronously) the
\* session has called driveScanner.start() as often as driveScanner.stop():
\* once each.
C3_ScannerBalancedAfterWriter ==
  \A s \in Sessions :
    pc[s] \in {"done", "writerThrew"} => stops[s] = 1 /\ starts[s] = 1

\* C4: every session that passes the entry guard terminates with isFlashing
\* false, also when its download fails, its validation is rejected or its
\* writer rejects: once every session that entered has run its last handler,
\* isFlashing is false.
C4_SessionEndsNotFlashing ==
  ((\E s \in Sessions : Entered(s)) /\ (\A s \in Sessions : ~Active(s)))
    => ~isFlashing

\* C5: every session that called driveScanner.stop() on entry calls
\* driveScanner.start() on every exit path: a session that stopped the
\* scanner and has run its last handler has started it again.
C5_StoppedScannerRestarts ==
  \A s \in Sessions : (Finished(s) /\ stops[s] = 1) => starts[s] = 1

C8_FlashLabelOnlyWhenIdle ==
  \A unmount \in BOOLEAN :
    /\ getProgressButtonLabel(unmount) = "Flash!"
         <=> (~isDownloading /\ ~isFlashing)
    /\ (isFlashing /\ ~isDownloading /\ progress.percentage = 0
          /\ progress.speed = 0)
         => getProgressButtonLabel(unmount) = "Starting..."

\* C9: for a candidate whose path has an unsupported extension, selectImage
\* rejects without displaying the warning prompt and leaves the selection
\* state as it was before the call.
C9_InvalidImageLeavesSelection ==
  [][\A s \in Sessions :
       (pc[s] = "timeout" /\ pc'[s] # "timeout"
          /\ Extension(image[s].path) \notin {"img", "iso", "zip"})
       => /\ pc'[s] = "invalid"
          /\ selection' = selection
          /\ modal' = modal]_vars

\* selectImage rejected an unsupported image while an image was selected.
C9_Witness ==
  \E s \in Sessions : pc[s] = "invalid" /\ selection # NoImage

\* C10: for a supported candidate, selectImage raises at most one warning
\* prompt per call: "looks like Windows image" whenever the heuristic matches
\* (whatever hasMBR is), "missing partition table" exactly when it does not
\* match and hasMBR is false, and no prompt otherwise.
C10_OneWarningWindowsFirst ==
  [][\A s \in Sessions :
       (pc[s] = "timeout" /\ pc'[s] # "timeout"
          /\ Extension(image[s].path) \in {"img", "iso", "zip"})
       => /\ looksLikeWindowsImage(image[s].path)
               => pc'[s] = "prompt" /\ modal'[s] = "looksLikeWindowsImage"
          /\ (~looksLikeWindowsImage(image[s].path) /\ ~image[s].hasMBR)
               => pc'[s] = "prompt" /\ modal'[s] = "missingPartitionTable"
          /\ (~looksLikeWindowsImage(image[s].path) /\ image[s].hasMBR)
               => pc'[s] # "prompt" /\ modal'[s] = NoMessage]_vars

\* The prompt shows the Windows warning for an image that also lacks a
\* partition table.
C10_Witness ==
  \E s \in Sessions :
    /\ pc[s] = "prompt"
    /\ modal[s] = "looksLikeWindowsImage"
    /\ ~image[s].hasMBR

\* C11: when the warning prompt is shown and the user chooses to go back
\* ("Change"), the promise selectImage returned settles with the
\* reselection's result: no caller of selectImage or selectImageByPath is
\* left with a promise that stays pending once the session's last handler
\* has run.
C11_ChangeSettlesPromise ==
  \A s \in Sessions :
    Finished(s) => selectPromise[s] # "pending" /\ byPathPromise[s] # "pending"
\* C12: for a session whose candidate already has a local path the download
\* phase is skipped entirely: the call sets no flash/download flag, and no
\* progress record of phase 'download' is published while the session is in
\* progress.
C12_LocalSessionSeesNoDownload ==
  [][\A s \in Sessions :
       /\ (pc[s] = "idle" /\ pc'[s] = "metadata") => UNCHANGED flashFlags
       /\ (LocalSession(s) /\ Active(s)') => ~DownloadPublished]_vars

\* C13: when the metadata resolution fails in selectImageByPath, the returned
\* promise rejects, selectImage is never invoked (its promise is never
\* created, it displays no prompt) and the selection state is unchanged.
C13_MetadataFailureRejects ==
  [][\A s \in Sessions :
       /\ (pc[s] = "metadata" /\ pc'[s] = "openError") =>
            /\ byPathPromise'[s] = "rejected"
            /\ selection' = selection
       /\ pc'[s] = "openError" =>
            /\ byPathPromise'[s] = "rejected"
            /\ selectPromise'[s] = "none"
            /\ modal'[s] = NoMessage]_vars

\* A metadata failure while an earlier session's image is selected.
C13_Witness ==
  \E s \in Sessions : pc[s] = "openError" /\ selection # NoImage

\* C14: the writer's flash is invoked in a session only after
\* selectImageByPath has resolved with a committed image for that session;
\* if validation fails (unsupported format or metadata failure) the writer
\* is never invoked in that session.
C14_WriterOnlyAfterCommit ==
  [][\A s \in Sessions :
       /\ flashCalls'[s] # flashCalls[s] =>
            /\ byPathPromise'[s] = "resolved"
            /\ image[s] # NoImage
            /\ selection' = image[s]
       /\ flashCalls'[s] > 0 => byPathPromise'[s] = "resolved"
       /\ pc'[s] \in {"invalid", "openError"} => flashCalls'[s] = 0]_vars

\* The writer runs for one session, another one failed validation.
C14_Witness ==
  \E s, r \in Sessions :
    /\ pc[s] = "writing" /\ flashCalls[s] = 1
    /\ selection.path = image[s].path
    /\ pc[r] \in {"invalid", "openError"}

\* C15: if the success handler or the failure handler of the writer's
\* promise itself throws (the state transition of the former, the
\* notification sink of the latter), driveScanner.start() is still called exactly once
\* for that session.
C15_HandlerThrowsScannerRestarts ==
  [][\A s \in Sessions :
       (pc[s] = "writing" /\ pc'[s] = "done" /\ threw' # NoThrow) =>
         starts[s] = 0 /\ starts'[s] = 1]_vars

\* The success handler threw, then the failure handler threw as well.
C15_Witness ==
  /\ threw.then # "none" /\ threw.catch # "none"
  /\ \E s \in Sessions : pc[s] = "done" /\ starts[s] = 1

\* C16: the phases of a session are sequential and, at every instant, at most
\* one operation (a download's progress handler or the writer) is publishing
\* progress into the shared flash state, for any sequence of
\* flashImageToDrive calls.
C16_OnePublisher ==
  Cardinality({s \in Sessions : Publishing(s)}) <= 1

\* C17: when flashImageToDrive is called while isFlashing is already true the
\* call is a no-op: it does not call driveScanner.stop(), starts no
\* download, invokes neither the image selector nor the writer, sends no
\* notification and leaves the flash state and the selection state
\* unchanged; nothing of it runs later either.
C17_GuardedCallIsNoOp ==
  [][\A s \in Sessions :
       /\ (pc[s] = "idle" /\ pc'[s] # "idle" /\ isFlashing) =>
            /\ pc'[s] = "refused"
            /\ UNCHANGED <<scanner, flashFlags, selection, promises,
                           flashCalls, image, retPath, modal>>
            /\ notifs' = <<>> /\ shown' = <<>> /\ reports' = 0
       /\ pc'[s] = "refused" =>
            /\ stops'[s] = 0 /\ starts'[s] = 0 /\ flashCalls'[s] = 0
            /\ byPathPromise'[s] = "none" /\ selectPromise'[s] = "none"
            /\ retPath'[s] = NoPath /\ image'[s] = NoImage]_vars

\* A call was refused while a download or a write was running.
C17_Witness ==
  \E s, r \in Sessions : pc[s] = "refused" /\ Publishing(r) /\ isFlashing

\* The rules of C18, in the order of the claim.
StartingRule == progress.percentage = 0 /\ progress.speed = 0
MaximumRule == progress.percentage = 100
ValidatingRule == progress.type = "check"
DownloadingRule == progress.type = "download"

\* C18: whenever getProgressButtonLabel does not return "Flash!", the label
\* is chosen by the first matching rule, in this order: percentage 0 with
\* unknown speed -> "Starting..."; percentage 100 -> "Unmounting..." if the
\* phase is validate/check and unmountOnSuccess is enabled, else
\* "Finishing..."; phase validate/check -> "{percentage}% Validating...";
\* phase download -> "{percentage}% Downloading..."; otherwise
\* "{percentage}%".
C18_LabelRuleOrder ==
  (label # NoLabel /\ label # "Flash!") =>
    /\ StartingRule => label = "Starting..."
    /\ (~StartingRule /\ MaximumRule) =>
         label = IF ValidatingRule /\ unmountOnSuccess THEN "Unmounting..."
                 ELSE "Finishing..."
    /\ (~StartingRule /\ ~MaximumRule /\ ValidatingRule) =>
         label = ToString(progress.percentage) \o "% Validating..."
    /\ (~StartingRule /\ ~MaximumRule /\ ~ValidatingRule /\ DownloadingRule) =>
         label = ToString(progress.percentage) \o "% Downloading..."
    /\ (~StartingRule /\ ~MaximumRule /\ ~ValidatingRule /\ ~DownloadingRule) =>
         label = ToString(progress.percentage) \o "%"

\* A rendering where two rules match and the earlier one wins: validating at
\* 100 percent with unmountOnSuccess enabled.
C18_Witness ==
  /\ label = "Unmounting..."
  /\ ValidatingRule /\ MaximumRule /\ ~StartingRule

\* C19: the failure notification and a flash-error message are emitted only
\* if the writer rejected: a session in which the writer resolved never
\* emits the failure notification, so no session emits both the success
\* notification and the failure notification.
C19_FailureOnlyIfWriterRejected ==
  settled = "resolved" =>
    /\ \A i \in DOMAIN notifs : notifs[i] # FailureTitle
    /\ shown = <<>>

\* The step on which selectImage accepts the image of the session: no warning
\* fired, or the user accepted the risk.
AcceptStep(s) ==
  pc[s] \in {"timeout", "prompt"} /\ pc'[s] \in {"writing", "writerThrew"}

StrictFlags(img) == IsStrictBoolean(img.logo) /\ IsStrictBoolean(img.bmap)

\* C20 (as claimed): on the accept path of selectImage the two feature flags
\* (logo, bmap) are normalized to strict booleans before the descriptor is
\* committed: the descriptor handed to the selection state at the commit
\* carries strict boolean flags.
C20_CommittedFlagsAreBooleans ==
  [][\A s \in Sessions : AcceptStep(s) => StrictFlags(selection')]_vars

\* C20 (amended): on the accept path the descriptor is committed to the
\* selection state as it was received, flags included; the flags are
\* normalized to strict booleans after the commit, and the descriptor the
\* promise resolves with (the one the writer is invoked for) carries them.
C20_FlagsNormalizedAfterCommit ==
  [][\A s \in Sessions :
       AcceptStep(s) =>
         /\ selection' = image[s]
         /\ pc'[s] = "writing" =>
              /\ image'[s] = normalizeFlags(image[s])
              /\ StrictFlags(image'[s])]_vars

\* An image was committed with a flag that is no boolean, and the session
\* goes on with the normalized descriptor.
C20_Witness ==
  \E s \in Sessions :
    /\ pc[s] = "writing"
    /\ selection.path = image[s].path
    /\ ~StrictFlags(selection)
    /\ StrictFlags(image[s])

====
